---- MODULE Spec2Model ----
(***************************************************************************)
(* A model of two stress-ng stressors:                                     *)
(*   stress-lockofd.c     open-file-description lock contention between a  *)
(*                        parent and its forked child, each tracking its   *)
(*                        ranges in a FIFO list with a free pool;          *)
(*   stress-membarrier.c  four pool threads plus the calling thread        *)
(*                        exercising membarrier(2), with per-thread        *)
(*                        metrics summed into one rate.                    *)
(* Spec is stress_lockofd as a whole, SpecRange the lock request arithmetic*)
(* over the sampled generator outputs.                                     *)
(***************************************************************************)
EXTENDS Integers, Sequences, FiniteSets, TLC

VARIABLES
    \* ---- stress-lockofd.c ----
    pc,                     \* [Procs -> position of the process in stress_lockofd]
    lockofd_infos,          \* [Procs -> lockofd_info_list_t] (one copy per process)
    heap,                   \* [Procs -> Seq(lockofd_info_t)]: record at address a is heap[p][a]
    g_keep_stressing_flag,  \* [Procs -> BOOLEAN]: cleared by the stop signal
    counter,                \* the bogo-op counter behind inc_counter(), shared by both processes
    pushed,                 \* [Procs -> Seq(range)]: every (offset, len) stored in a new record, in order
    unlocked,               \* [Procs -> Seq]: every (l_start, l_len) handed to the F_UNLCK fcntl and what it returned (rc), in order
    wr_offset,              \* the loop variable offset of the sizing loop
    file_size,              \* bytes in the lock file
    fd_open,                \* the descriptor is open in the parent
    removed,                \* the removals attempted so far: a subset of {"unlink", "rmdir"}
    cpid,                   \* -1: no child, 1: the child's pid
    child_status,           \* the child's exit status, "none" while it has not ended
    ret,                    \* stress_lockofd's local ret
    last_fork,              \* [res, tries]: what the last fork() call gave, and the failed calls of the retry loop so far
    \* ---- request arithmetic (SpecRange) ----
    rnd,                    \* the generator outputs drawn: [r16, r64]
    f,                      \* the struct flock filled from them; l_type is "none" until then
    \* ---- stress-membarrier.c ----
    mpc,                    \* position of the calling thread in stress_membarrier
    mi,                     \* its loop variable i
    mb_ret,                 \* its local ret: the result of the first MEMBARRIER_CMD_QUERY
    mb_errno,               \* errno after that query
    keep_running,           \* static volatile bool keep_running
    info,                   \* membarrier_info_t info[MAX_MEMBARRIER_THREADS + 1]
    pargs_data,             \* pargs.data: the index of the slot it points to, NULL_SLOT at first
    thr,                    \* [pool thread -> [pc, info]]: position and its local pointer info
    bogo,                   \* the bogo-op counter behind inc_counter()
    pool_cycles,            \* exercise cycles the pool threads have begun
    mb_flag,                \* keep_stressing_flag(): cleared by the stop signal
    metric,                 \* what stress_metrics_set() was given: <<>> until then
    mb_status,              \* what stress_membarrier returned, "running" until then
    kernel_mask,            \* the command mask the running kernel answers MEMBARRIER_CMD_QUERY with
    have_flag_cpu,          \* the build has MEMBARRIER_CMD_FLAG_CPU defined for the preprocessor
    tick,                   \* stress_time_now() - t over one sweep on this machine, in clock ticks
    duration,               \* stress_membarrier's local duration
    count,                  \* stress_membarrier's local count
    slots_read,             \* history: the slots as the summing loop read them, in order
    cycle_failed,           \* history: a cycle of the calling thread has returned -1
    \* ---- one exercise cycle on its own (SpecExercise) ----
    ex                      \* [mask, state, info, calls]: the mask queried, the slot, the calls made

lockVars == <<pc, lockofd_infos, heap, g_keep_stressing_flag, counter, pushed,
              unlocked, wr_offset, file_size, fd_open, removed, cpid, child_status,
              ret, last_fork>>
rangeVars == <<rnd, f>>
mbVars == <<mpc, mi, mb_ret, mb_errno, keep_running, info, pargs_data, thr, bogo,
            pool_cycles, mb_flag, metric, mb_status, kernel_mask, have_flag_cpu,
            tick, duration, count, slots_read, cycle_failed>>
exVars == <<ex>>
nonLockVars == <<rangeVars, mbVars, exVars>>
vars == <<lockVars, rangeVars, mbVars, exVars>>

-----------------------------------------------------------------------------
(* Program constants and model bounds                                      *)

LOCK_FILE_SIZE == 1048576

\* LOCK_MAX is 1024 in the source; the model runs the same loop with a small
\* capacity so that eviction is reached.
LOCK_MAX == 4

\* sizeof(buffer)
BUFFER_SIZE == 4096

\* args->max_ops: the bogo-op budget after which keep_stressing() is false
MaxOps == 5

\* how many short writes the sizing loop may see
MaxShortWrites == 1

\* the length a short write returns
ShortWriteLen == BUFFER_SIZE \div 2

NULL == 0

Procs == {"parent", "child"}

\* Samples of mwc16() used by the contention loop: they give the lengths 8
\* and (4095 + 1) & 0xfff
DrawR16 == {7, 4095}

\* A 64-bit value is written as its 8 bytes, most significant first.
U64Zero == <<0, 0, 0, 0, 0, 0, 0, 0>>
U64Max == <<255, 255, 255, 255, 255, 255, 255, 255>>

\* Samples of mwc64() used by the contention loop
DrawR64 == {U64Max}

-----------------------------------------------------------------------------
(* The request arithmetic of stress_lockofd_contention                      *)

\* An unsigned 64-bit value modulo m (0 < m <= 2^20), byte by byte
RECURSIVE ModBytes(_, _, _)
ModBytes(bytes, m, acc) ==
    IF bytes = <<>> THEN acc
    ELSE ModBytes(Tail(bytes), m, (acc * 256 + Head(bytes)) % m)

Mod64(r64, m) == ModBytes(r64, m, 0)

\* len = (mwc16() + 1) & 0xfff
LockLen(r16) == (r16 + 1) % 4096

\* A variant that forgets to leave room for the length
LockOffset_WholeFile(r64, len) == Mod64(r64, LOCK_FILE_SIZE)

\* offset = mwc64() % (LOCK_FILE_SIZE - len)
LockOffset(r64, len) == Mod64(r64, LOCK_FILE_SIZE - len)

\* f.l_type = F_WRLCK; f.l_start = offset; f.l_len = len
LockRequest(r16, r64) ==
    LET len == LockLen(r16)
    IN  [l_type |-> "F_WRLCK", l_start |-> LockOffset(r64, len), l_len |-> len]

NoRequest == [l_type |-> "none", l_start |-> 0, l_len |-> 0]

-----------------------------------------------------------------------------
(* The tracking list: lockofd_info_list_t and its records                   *)

EmptyInfos == [head |-> NULL, tail |-> NULL, free |-> NULL, length |-> 0]

\* calloc(1, sizeof(*new))
ZeroInfo == [offset |-> 0, len |-> 0, next |-> NULL]

\* A variant that never looks at the free pool
stress_lockofd_info_new_NoReuse(L, H, callocOk) ==
    IF ~callocOk
    THEN [infos |-> L, heap |-> H, new |-> NULL]
    ELSE LET new == Len(H) + 1
             H1 == Append(H, ZeroInfo)
             H2 == IF L.head # NULL THEN [H1 EXCEPT ![L.tail].next = new] ELSE H1
         IN  [infos |-> [head |-> IF L.head # NULL THEN L.head ELSE new,
                         tail |-> new, free |-> L.free, length |-> L.length + 1],
              heap |-> H2, new |-> new]

\* stress_lockofd_info_new(): the list, the heap and the record returned
\* (NULL when calloc fails)
stress_lockofd_info_new(L, H, callocOk) ==
    LET fromFree == L.free # NULL
        new == IF fromFree THEN L.free
               ELSE IF callocOk THEN Len(H) + 1 ELSE NULL
    IN  IF new = NULL
        THEN [infos |-> L, heap |-> H, new |-> NULL]
        ELSE LET H1 == IF fromFree THEN [H EXCEPT ![new].next = NULL]
                       ELSE Append(H, ZeroInfo)
                 free1 == IF fromFree THEN H[new].next ELSE L.free
                 H2 == IF L.head # NULL THEN [H1 EXCEPT ![L.tail].next = new]
                       ELSE H1
                 head2 == IF L.head # NULL THEN L.head ELSE new
             IN  [infos |-> [head |-> head2, tail |-> new, free |-> free1,
                             length |-> L.length + 1],
                  heap |-> H2, new |-> new]

\* A variant that forgets lockofd_infos.length--
stress_lockofd_info_head_remove_NoCount(L, H) ==
    IF L.head = NULL
    THEN [infos |-> L, heap |-> H]
    ELSE LET hd == L.head
             L1 == IF L.tail = L.head
                   THEN [L EXCEPT !.tail = NULL, !.head = NULL]
                   ELSE [L EXCEPT !.head = H[hd].next]
         IN  [infos |-> [L1 EXCEPT !.free = hd],
              heap |-> [H EXCEPT ![hd].next = L.free]]

\* stress_lockofd_info_head_remove()
stress_lockofd_info_head_remove(L, H) ==
    IF L.head = NULL
    THEN [infos |-> L, heap |-> H]
    ELSE LET hd == L.head
             L1 == IF L.tail = L.head
                   THEN [L EXCEPT !.tail = NULL, !.head = NULL]
                   ELSE [L EXCEPT !.head = H[hd].next]
         IN  [infos |-> [L1 EXCEPT !.free = hd, !.length = L.length - 1],
              heap |-> [H EXCEPT ![hd].next = L.free]]

\* stress_lockofd_info_free(): both chains are freed; tail and length are
\* left as they were
stress_lockofd_info_free(L, H) ==
    [infos |-> [L EXCEPT !.head = NULL, !.free = NULL], heap |-> <<>>]

\* The records reachable from address a, as their addresses
RECURSIVE Chain(_, _, _)
Chain(H, a, fuel) ==
    IF a = NULL \/ fuel = 0 \/ a > Len(H) THEN <<>>
    ELSE <<a>> \o Chain(H, H[a].next, fuel - 1)

ActiveChain(p) == Chain(heap[p], lockofd_infos[p].head, Len(heap[p]))
FreeChain(p) == Chain(heap[p], lockofd_infos[p].free, Len(heap[p]))

RangeOf(r) == [offset |-> r.offset, len |-> r.len]

\* The (offset, len) pairs of the active list, oldest first
ActiveRanges(p) ==
    [i \in 1..Len(ActiveChain(p)) |-> RangeOf(heap[p][ActiveChain(p)[i]])]

-----------------------------------------------------------------------------
(* stress_lockofd_unlock and stress_lockofd_contention, run by process p    *)

ContentionPcs == {"c_top", "c_lock", "c_while", "c_ret0", "c_fail"}

\* keep_stressing(): the stop flag is set and the bogo-op budget is not used up
keep_stressing(p) == g_keep_stressing_flag[p] /\ counter < MaxOps

\* A variant with an off-by-one capacity test
NeedsUnlock_Late(L) == L.length > LOCK_MAX

\* if (lockofd_infos.length >= LOCK_MAX)
NeedsUnlock(L) == L.length >= LOCK_MAX

\* A variant that unlocks the newest record's range
UnlockRequest_Newest(L, H) == [l_start |-> H[L.tail].offset, l_len |-> H[L.tail].len]

\* f.l_start = lockofd_infos.head->offset; f.l_len = lockofd_infos.head->len
UnlockRequest(L, H) == [l_start |-> H[L.head].offset, l_len |-> H[L.head].len]

\* The head of the loop body: at capacity, stress_lockofd_unlock() pops the
\* oldest record and hands its range to fcntl(F_OFD_SETLK, F_UNLCK); a failed
\* fcntl makes the loop return -1.
ContentionUnlock(p) ==
    /\ pc[p] = "c_top"
    /\ IF NeedsUnlock(lockofd_infos[p]) /\ lockofd_infos[p].head # NULL
       THEN \E rc \in {0, -1} :
              LET req == UnlockRequest(lockofd_infos[p], heap[p])
                  r == stress_lockofd_info_head_remove(lockofd_infos[p], heap[p])
              IN  /\ lockofd_infos' = [lockofd_infos EXCEPT ![p] = r.infos]
                  /\ heap' = [heap EXCEPT ![p] = r.heap]
                  /\ unlocked' = [unlocked EXCEPT ![p] =
                                    Append(@, [l_start |-> req.l_start, l_len |-> req.l_len, rc |-> rc])]
                  /\ pc' = [pc EXCEPT ![p] = IF rc < 0 THEN "c_fail" ELSE "c_lock"]
       ELSE /\ pc' = [pc EXCEPT ![p] = "c_lock"]
            /\ UNCHANGED <<lockofd_infos, heap, unlocked>>
    /\ UNCHANGED <<g_keep_stressing_flag, counter, pushed, wr_offset, file_size,
                   fd_open, removed, cpid, child_status, ret, last_fork, nonLockVars>>

\* The rest of the loop body: draw len and offset, fcntl(F_OFD_GETLK), and
\* unless that returned a negative value record the range and count the op.
\* F_OFD_GETLK only reports whether the lock could be placed: it returns 0
\* whether or not the range is locked and places no lock.
ContentionLock(p) ==
    /\ pc[p] = "c_lock"
    /\ \E r16 \in DrawR16, r64 \in DrawR64, rc \in {0, -1}, callocOk \in BOOLEAN :
         LET req == LockRequest(r16, r64)
             n == stress_lockofd_info_new(lockofd_infos[p], heap[p], callocOk)
         IN  IF rc < 0
             THEN /\ pc' = [pc EXCEPT ![p] = "c_while"]
                  /\ UNCHANGED <<lockofd_infos, heap, pushed, counter>>
             ELSE IF n.new = NULL
             THEN /\ pc' = [pc EXCEPT ![p] = "c_fail"]
                  /\ UNCHANGED <<lockofd_infos, heap, pushed, counter>>
             ELSE /\ lockofd_infos' = [lockofd_infos EXCEPT ![p] = n.infos]
                  /\ heap' = [heap EXCEPT ![p] =
                                [n.heap EXCEPT ![n.new].offset = req.l_start,
                                               ![n.new].len = req.l_len]]
                  /\ pushed' = [pushed EXCEPT ![p] =
                                  Append(@, [offset |-> req.l_start, len |-> req.l_len])]
                  /\ counter' = counter + 1
                  /\ pc' = [pc EXCEPT ![p] = "c_while"]
    /\ UNCHANGED <<g_keep_stressing_flag, unlocked, wr_offset, file_size, fd_open,
                   removed, cpid, child_status, ret, last_fork, nonLockVars>>

\* } while (keep_stressing()); return 0;
ContentionWhile(p) ==
    /\ pc[p] = "c_while"
    /\ pc' = [pc EXCEPT ![p] = IF keep_stressing(p) THEN "c_top" ELSE "c_ret0"]
    /\ UNCHANGED <<lockofd_infos, heap, g_keep_stressing_flag, counter, pushed,
                   unlocked, wr_offset, file_size, fd_open, removed, cpid,
                   child_status, ret, last_fork, nonLockVars>>

-----------------------------------------------------------------------------
(* stress_lockofd: setup                                                    *)

\* exit_status(errno): a status other than success, chosen by the errno
ExitStatusValues == {"EXIT_FAILURE", "EXIT_NO_RESOURCE"}

\* mkdir(dirname): EEXIST is expected; any other failure returns at once
Mkdir ==
    /\ pc["parent"] = "mkdir"
    /\ \E res \in {"ok", "EEXIST", "error"} :
         IF res = "error"
         THEN \E st \in ExitStatusValues :
                /\ ret' = st
                /\ pc' = [pc EXCEPT !["parent"] = "done"]
         ELSE /\ pc' = [pc EXCEPT !["parent"] = "open"]
              /\ UNCHANGED ret
    /\ UNCHANGED <<lockofd_infos, heap, g_keep_stressing_flag, counter, pushed,
                   unlocked, wr_offset, file_size, fd_open, removed, cpid,
                   child_status, last_fork, nonLockVars>>

\* open(filename, O_CREAT | O_RDWR): a failure removes the directory and returns
Open ==
    /\ pc["parent"] = "open"
    /\ \E ok \in BOOLEAN :
         IF ok
         THEN /\ fd_open' = TRUE
              /\ pc' = [pc EXCEPT !["parent"] = "lseek"]
              /\ UNCHANGED <<ret, removed>>
         ELSE \E st \in ExitStatusValues :
                /\ ret' = st
                /\ removed' = removed \cup {"rmdir"}
                /\ pc' = [pc EXCEPT !["parent"] = "done"]
                /\ UNCHANGED fd_open
    /\ UNCHANGED <<lockofd_infos, heap, g_keep_stressing_flag, counter, pushed,
                   unlocked, wr_offset, file_size, cpid, child_status, last_fork, nonLockVars>>

\* lseek(fd, 0, SEEK_SET)
Lseek ==
    /\ pc["parent"] = "lseek"
    /\ \E ok \in BOOLEAN :
         pc' = [pc EXCEPT !["parent"] = IF ok THEN "sizing" ELSE "tidy"]
    /\ UNCHANGED <<lockofd_infos, heap, g_keep_stressing_flag, counter, pushed,
                   unlocked, wr_offset, file_size, fd_open, removed, cpid,
                   child_status, ret, last_fork, nonLockVars>>

\* One pass of the sizing loop body from the label redo: the stop check, then
\* write(fd, buffer, sizeof(buffer)).  A short write leaves errno as the last
\* failed call set it, so the errno test after it can go either way.
SizingWrite ==
    /\ pc["parent"] = "sizing"
    /\ IF ~g_keep_stressing_flag["parent"]
       THEN /\ ret' = "EXIT_SUCCESS"
            /\ pc' = [pc EXCEPT !["parent"] = "tidy"]
            /\ UNCHANGED <<wr_offset, file_size>>
       ELSE \E res \in {"full", "short", "EAGAIN", "EINTR", "error"},
               staleRetry \in BOOLEAN :
              CASE res = "full" ->
                     /\ file_size' = file_size + BUFFER_SIZE
                     /\ wr_offset' = wr_offset + BUFFER_SIZE
                     /\ pc' = [pc EXCEPT !["parent"] =
                                 IF wr_offset + BUFFER_SIZE < LOCK_FILE_SIZE
                                 THEN "sizing" ELSE "fork"]
                     /\ UNCHANGED ret
                [] res = "short" ->
                     /\ file_size - wr_offset < MaxShortWrites * ShortWriteLen
                     /\ file_size' = file_size + ShortWriteLen
                     /\ IF staleRetry
                        THEN UNCHANGED <<pc, ret>>
                        ELSE \E st \in ExitStatusValues :
                               /\ ret' = st
                               /\ pc' = [pc EXCEPT !["parent"] = "tidy"]
                     /\ UNCHANGED wr_offset
                [] res \in {"EAGAIN", "EINTR"} ->
                     UNCHANGED <<pc, ret, wr_offset, file_size>>
                [] OTHER ->
                     \E st \in ExitStatusValues :
                       /\ ret' = st
                       /\ pc' = [pc EXCEPT !["parent"] = "tidy"]
                       /\ UNCHANGED <<wr_offset, file_size>>
    /\ UNCHANGED <<lockofd_infos, heap, g_keep_stressing_flag, counter, pushed,
                   unlocked, fd_open, removed, cpid, child_status, last_fork, nonLockVars>>

\* The failed fork() calls that are told apart: past it the count starts again
MaxForkRetries == 2

\* A variant that retries whatever the error
ForkRetry_Always(e) == TRUE

\* if (errno == EAGAIN) goto again;
ForkRetry(e) == e = "EAGAIN"

\* again: cpid = fork().  The child starts with a copy of the parent's memory
\* and the same open file description.  A failed call is retried at once if
\* the run is not asked to stop and errno is EAGAIN; nothing counts the calls
\* in the program.
Fork ==
    /\ pc["parent"] = "fork"
    /\ \E res \in {"ok", "EAGAIN", "ENOMEM"} :
         CASE res = "ok" ->
                /\ cpid' = 1
                /\ pc' = [pc EXCEPT !["parent"] = "c_top", !["child"] = "c_top"]
                /\ lockofd_infos' = [lockofd_infos EXCEPT !["child"] = lockofd_infos["parent"]]
                /\ heap' = [heap EXCEPT !["child"] = heap["parent"]]
                /\ g_keep_stressing_flag' =
                     [g_keep_stressing_flag EXCEPT !["child"] = g_keep_stressing_flag["parent"]]
                /\ last_fork' = [res |-> res, tries |-> 0]
                /\ UNCHANGED ret
           [] OTHER ->
                /\ IF ~g_keep_stressing_flag["parent"]
                   THEN /\ ret' = "EXIT_SUCCESS"
                        /\ pc' = [pc EXCEPT !["parent"] = "tidy"]
                        /\ last_fork' = [res |-> res, tries |-> 0]
                   ELSE IF ForkRetry(res)
                   THEN /\ last_fork' = [res |-> res,
                                         tries |-> (last_fork.tries + 1) % (MaxForkRetries + 1)]
                        /\ UNCHANGED <<pc, ret>>
                   ELSE /\ pc' = [pc EXCEPT !["parent"] = "tidy"]
                        /\ last_fork' = [res |-> res, tries |-> 0]
                        /\ UNCHANGED ret
                /\ UNCHANGED <<cpid, lockofd_infos, heap, g_keep_stressing_flag>>
    /\ UNCHANGED <<counter, pushed, unlocked, wr_offset, file_size, fd_open,
                   removed, child_status, nonLockVars>>

-----------------------------------------------------------------------------
(* stress_lockofd: the child's exit and the parent's teardown               *)

\* The child after stress_lockofd_contention(): _exit(EXIT_FAILURE) on a
\* negative return, else stress_lockofd_info_free() and _exit(EXIT_SUCCESS).
\* Its memory goes with it.
ChildExit ==
    /\ pc["child"] \in {"c_ret0", "c_fail"}
    /\ child_status' = IF pc["child"] = "c_fail" THEN "EXIT_FAILURE" ELSE "EXIT_SUCCESS"
    /\ pc' = [pc EXCEPT !["child"] = "exited"]
    /\ lockofd_infos' = [lockofd_infos EXCEPT !["child"] = EmptyInfos]
    /\ heap' = [heap EXCEPT !["child"] = <<>>]
    /\ UNCHANGED <<g_keep_stressing_flag, counter, pushed, unlocked, wr_offset,
                   file_size, fd_open, removed, cpid, ret, last_fork, nonLockVars>>

\* if (stress_lockofd_contention(args, fd) == 0) ret = EXIT_SUCCESS;
ParentContentionDone ==
    /\ pc["parent"] \in {"c_ret0", "c_fail"}
    /\ ret' = IF pc["parent"] = "c_ret0" THEN "EXIT_SUCCESS" ELSE ret
    /\ pc' = [pc EXCEPT !["parent"] = "tidy"]
    /\ UNCHANGED <<lockofd_infos, heap, g_keep_stressing_flag, counter, pushed,
                   unlocked, wr_offset, file_size, fd_open, removed, cpid,
                   child_status, last_fork, nonLockVars>>

\* A variant that leaves the child alone
ChildToReap_Never(c) == FALSE

\* if (cpid > 0)
ChildToReap(c) == c > 0

\* tidy: if (cpid > 0) { kill(cpid, SIGKILL); waitpid(cpid, &status, 0); }
TidyReap ==
    /\ pc["parent"] = "tidy"
    /\ IF ChildToReap(cpid)
       THEN /\ pc' = [pc EXCEPT !["parent"] = "tidy_free", !["child"] = "reaped"]
            /\ child_status' = IF pc["child"] = "exited" THEN child_status ELSE "SIGKILL"
            /\ lockofd_infos' = [lockofd_infos EXCEPT !["child"] = EmptyInfos]
            /\ heap' = [heap EXCEPT !["child"] = <<>>]
       ELSE /\ pc' = [pc EXCEPT !["parent"] = "tidy_free"]
            /\ UNCHANGED <<child_status, lockofd_infos, heap>>
    /\ UNCHANGED <<g_keep_stressing_flag, counter, pushed, unlocked, wr_offset,
                   file_size, fd_open, removed, cpid, ret, last_fork, nonLockVars>>

\* stress_lockofd_info_free();
TidyFree ==
    /\ pc["parent"] = "tidy_free"
    /\ LET r == stress_lockofd_info_free(lockofd_infos["parent"], heap["parent"])
       IN  /\ lockofd_infos' = [lockofd_infos EXCEPT !["parent"] = r.infos]
           /\ heap' = [heap EXCEPT !["parent"] = r.heap]
    /\ pc' = [pc EXCEPT !["parent"] = "tidy_close"]
    /\ UNCHANGED <<g_keep_stressing_flag, counter, pushed, unlocked, wr_offset,
                   file_size, fd_open, removed, cpid, child_status, ret, last_fork, nonLockVars>>

\* close(fd); unlink(filename); rmdir(dirname); return ret;
TidyClose ==
    /\ pc["parent"] = "tidy_close"
    /\ fd_open' = FALSE
    /\ removed' = removed \cup {"unlink", "rmdir"}
    /\ pc' = [pc EXCEPT !["parent"] = "done"]
    /\ UNCHANGED <<lockofd_infos, heap, g_keep_stressing_flag, counter, pushed,
                   unlocked, wr_offset, file_size, cpid, child_status, ret,
                   last_fork, nonLockVars>>

\* The stop signal reaches process p: its handler clears g_keep_stressing_flag
StopSignal(p) ==
    /\ pc[p] \notin {"none", "exited", "reaped", "done"}
    /\ g_keep_stressing_flag[p]
    /\ g_keep_stressing_flag' = [g_keep_stressing_flag EXCEPT ![p] = FALSE]
    /\ UNCHANGED <<pc, lockofd_infos, heap, counter, pushed, unlocked, wr_offset,
                   file_size, fd_open, removed, cpid, child_status, ret, last_fork, nonLockVars>>

-----------------------------------------------------------------------------
(* stress-membarrier.c: one exercise cycle                                  *)

MAX_MEMBARRIER_THREADS == 4

\* unsigned int i, mask: the sweeps visit 32 bits
NBITS == 32

MEMBARRIER_CMD_SHARED == 1
MEMBARRIER_CMD_FLAG_CPU == 1
INT_MAX == 2147483647

\* ~0 as an int
ALL_ONES == -1

\* i & mask for i = 1 << b.  mask is a non-negative int, so bit 31 is clear.
BitSet(mask, b) == b < 31 /\ (mask \div (2 ^ b)) % 2 = 1

\* (int)i for i = 1 << b
CmdOfBit(b) == IF b < 31 THEN 2 ^ b ELSE (-2147483647) - 1

\* One shim_membarrier(cmd, flags, cpu_id) call; counted says whether
\* info->count += 1.0 follows it
Call(cmd, flags, cpu_id, counted) ==
    [cmd |-> cmd, flags |-> flags, cpu_id |-> cpu_id, counted |-> counted]

\* The body of the first sweep for one bit, with and without the block under
\* #if defined(MEMBARRIER_CMD_FLAG_CPU)
LegalCalls(b, flagCpu) ==
    <<Call(CmdOfBit(b), 0, 0, TRUE)>> \o
    (IF flagCpu THEN <<Call(CmdOfBit(b), MEMBARRIER_CMD_FLAG_CPU, 0, TRUE)>> ELSE <<>>)

\* for (i = 1; i; i <<= 1) if (i & mask) { legal calls, counted }
RECURSIVE LegalSweep(_, _, _)
LegalSweep(mask, b, flagCpu) ==
    IF b >= NBITS THEN <<>>
    ELSE (IF BitSet(mask, b) THEN LegalCalls(b, flagCpu) ELSE <<>>)
         \o LegalSweep(mask, b + 1, flagCpu)

\* for (i = 1; i; i <<= 1) if (i & mask) { illegal flags; illegal cpu_id }
RECURSIVE IllegalArgSweep(_, _)
IllegalArgSweep(mask, b) ==
    IF b >= NBITS THEN <<>>
    ELSE (IF BitSet(mask, b)
          THEN <<Call(CmdOfBit(b), ALL_ONES, 0, FALSE),
                 Call(CmdOfBit(b), 0, INT_MAX, FALSE)>>
          ELSE <<>>)
         \o IllegalArgSweep(mask, b + 1)

\* A variant without the break
RECURSIVE IllegalCmdProbe_NoBreak(_, _)
IllegalCmdProbe_NoBreak(mask, b) ==
    IF b >= NBITS THEN <<>>
    ELSE (IF ~BitSet(mask, b) THEN <<Call(CmdOfBit(b), 0, 0, FALSE)>> ELSE <<>>)
         \o IllegalCmdProbe_NoBreak(mask, b + 1)

\* for (i = 1; i; i <<= 1) if (!(i & mask)) { illegal command; break; }
RECURSIVE IllegalCmdProbe(_, _)
IllegalCmdProbe(mask, b) ==
    IF b >= NBITS THEN <<>>
    ELSE IF ~BitSet(mask, b) THEN <<Call(CmdOfBit(b), 0, 0, FALSE)>>
    ELSE IllegalCmdProbe(mask, b + 1)

\* The calls stress_membarrier_exercise() makes after a successful query that
\* returned mask, in order
stress_membarrier_exercise(mask, flagCpu) ==
    LegalSweep(mask, 0, flagCpu) \o IllegalArgSweep(mask, 0) \o IllegalCmdProbe(mask, 0)

\* How many times info->count += 1.0 runs in those calls
CountedIn(calls) == Cardinality({k \in DOMAIN calls : calls[k].counted})

\* The cycle's effect on a metrics slot: the counted calls, and the time dt
\* the first sweep took
ExerciseSlot(slot, mask, flagCpu, dt) ==
    [slot EXCEPT !.count = @ + CountedIn(stress_membarrier_exercise(mask, flagCpu)),
                 !.duration = @ + dt]

-----------------------------------------------------------------------------
(* stress-membarrier.c: stress_membarrier and stress_membarrier_thread      *)

\* max_ops of the membarrier stressor
MbMaxOps == 1

\* exercise cycles the pool threads may begin, all together
MaxPoolCycles == 1

\* What a sweep may take, in clock ticks: less than the clock resolves, or one
Ticks == {0, 1}

NULL_SLOT == -1

Pool == 0..(MAX_MEMBARRIER_THREADS - 1)
Slots == 0..MAX_MEMBARRIER_THREADS

\* info[] is stack memory until the clearing loop has run
UninitInfo == [pthread_ret |-> 0, duration |-> -1, count |-> -1]

\* A slot as the clearing loop leaves it
ZeroSlot == [pthread_ret |-> -1, duration |-> 0, count |-> 0]

\* The masks a kernel may answer the query with: with and without
\* MEMBARRIER_CMD_SHARED
KernelMasks == {6, 9}

\* A variant without the test on MEMBARRIER_CMD_SHARED
QueryExitClass_NoSharedTest(r, e) ==
    IF r < 0
    THEN (IF e = "ENOSYS" THEN "EXIT_NOT_IMPLEMENTED" ELSE "EXIT_FAILURE")
    ELSE "run"

\* What the first query means for the run: the status to return, or "run"
QueryExitClass(r, e) ==
    IF r < 0
    THEN (IF e = "ENOSYS" THEN "EXIT_NOT_IMPLEMENTED" ELSE "EXIT_FAILURE")
    ELSE IF ~BitSet(r, 0) THEN "EXIT_NOT_IMPLEMENTED"
    ELSE "run"

\* ret = shim_membarrier(MEMBARRIER_CMD_QUERY, 0, 0) and the tests on it
MbQuery ==
    /\ mpc = "query"
    /\ \E res \in {"ok", "ENOSYS", "EPERM"} :
         LET r == IF res = "ok" THEN kernel_mask ELSE -1
             e == IF res = "ok" THEN mb_errno ELSE res
             cls == QueryExitClass(r, e)
         IN  /\ mb_ret' = r
             /\ mb_errno' = e
             /\ IF cls = "run"
                THEN /\ mpc' = "init"
                     /\ UNCHANGED mb_status
                ELSE /\ mpc' = "returned"
                     /\ mb_status' = cls
    /\ UNCHANGED <<mi, keep_running, info, pargs_data, thr, bogo, pool_cycles,
                   mb_flag, metric, kernel_mask, have_flag_cpu, tick, duration, count, slots_read, cycle_failed, lockVars,
                   rangeVars, exVars>>

\* The loop that clears info[], then keep_running = true
MbInitInfo ==
    /\ mpc = "init"
    /\ info' = [s \in Slots |-> ZeroSlot]
    /\ keep_running' = TRUE
    /\ mi' = 0
    /\ mpc' = "create"
    /\ UNCHANGED <<mb_ret, mb_errno, pargs_data, thr, bogo, pool_cycles, mb_flag,
                   metric, mb_status, kernel_mask, have_flag_cpu, tick, duration, count, slots_read, cycle_failed, lockVars,
                   rangeVars, exVars>>

\* One pass of the creation loop: pargs.data = &info[i]; info[i].pthread_ret
\* = pthread_create(..., &pargs).  Every thread is handed the same pargs.
MbCreate ==
    /\ mpc = "create"
    /\ \E r \in {0, 11} :
         /\ info' = [info EXCEPT ![mi].pthread_ret = r]
         /\ thr' = IF r = 0 THEN [thr EXCEPT ![mi].pc = "start"] ELSE thr
    /\ pargs_data' = mi
    /\ mi' = mi + 1
    /\ mpc' = IF mi + 1 < MAX_MEMBARRIER_THREADS THEN "create" ELSE "exercise"
    /\ UNCHANGED <<mb_ret, mb_errno, keep_running, bogo, pool_cycles, mb_flag,
                   metric, mb_status, kernel_mask, have_flag_cpu, tick, duration, count, slots_read, cycle_failed, lockVars,
                   rangeVars, exVars>>

\* One pass of the calling thread's do loop: a cycle on
\* info[MAX_MEMBARRIER_THREADS] (a failed query is reported and nothing else),
\* inc_counter(), and the test while (keep_stressing(args))
MbExercise ==
    /\ mpc = "exercise"
    /\ \E qok \in BOOLEAN :
         /\ info' = IF qok
                    THEN [info EXCEPT ![MAX_MEMBARRIER_THREADS] =
                            ExerciseSlot(@, kernel_mask, have_flag_cpu, tick)]
                    ELSE info
         /\ cycle_failed' = (cycle_failed \/ ~qok)
    /\ bogo' = bogo + 1
    /\ mpc' = IF mb_flag /\ bogo + 1 < MbMaxOps THEN "exercise" ELSE "clear"
    /\ UNCHANGED <<mi, mb_ret, mb_errno, keep_running, pargs_data, thr, pool_cycles,
                   mb_flag, metric, mb_status, kernel_mask, have_flag_cpu, tick,
                   duration, count, slots_read, lockVars, rangeVars, exVars>>

\* keep_running = false; and the summing loop's i = 0
MbClear ==
    /\ mpc = "clear"
    /\ keep_running' = FALSE
    /\ mi' = 0
    /\ mpc' = "sum"
    /\ UNCHANGED <<mb_ret, mb_errno, info, pargs_data, thr, bogo, pool_cycles,
                   mb_flag, metric, mb_status, kernel_mask, have_flag_cpu, tick,
                   duration, count, slots_read, cycle_failed, lockVars, rangeVars, exVars>>

\* A variant of the loop test that stops before the calling thread's slot
SumLoopTest_PoolOnly(i) == i < MAX_MEMBARRIER_THREADS

\* i < MAX_MEMBARRIER_THREADS + 1
SumLoopTest(i) == i < MAX_MEMBARRIER_THREADS + 1

\* One pass of the summing loop: duration += info[i].duration;
\* count += info[i].count;  The pool threads have not been joined yet.
MbSum ==
    /\ mpc = "sum"
    /\ SumLoopTest(mi)
    /\ duration' = duration + info[mi].duration
    /\ count' = count + info[mi].count
    /\ slots_read' = Append(slots_read, info[mi])
    /\ mi' = mi + 1
    /\ UNCHANGED <<cycle_failed, mpc, mb_ret, mb_errno, keep_running, info, pargs_data, thr, bogo,
                   pool_cycles, mb_flag, metric, mb_status, kernel_mask,
                   have_flag_cpu, tick, lockVars, rangeVars, exVars>>

\* rate = (duration > 0) ? count / duration : 0.0, as a fraction
Rate(d, c) ==
    IF d > 0 THEN [num |-> c, den |-> d]
    ELSE [num |-> 0, den |-> 1]

\* stress_metrics_set(args, 0, "membarrier calls per sec", rate), and the
\* join loop's i = 0
MbMetric ==
    /\ mpc = "sum"
    /\ ~SumLoopTest(mi)
    /\ metric' = <<Rate(duration, count)>>
    /\ mi' = 0
    /\ mpc' = "join"
    /\ UNCHANGED <<mb_ret, mb_errno, keep_running, info, pargs_data, thr, bogo,
                   pool_cycles, mb_flag, mb_status, kernel_mask, have_flag_cpu, tick,
                   duration, count, slots_read, cycle_failed, lockVars, rangeVars, exVars>>

\* A variant that joins no thread
JoinNeeded_Never(inf, i) == FALSE

\* if (info[i].pthread_ret == 0)
JoinNeeded(inf, i) == inf[i].pthread_ret = 0

\* One pass of the join loop: pthread_join() on a thread that was created
\* returns once the thread has ended, and reaps it
MbJoin ==
    /\ mpc = "join"
    /\ mi < MAX_MEMBARRIER_THREADS
    /\ IF JoinNeeded(info, mi)
       THEN /\ thr[mi].pc = "ended"
            /\ thr' = [thr EXCEPT ![mi].pc = "joined"]
       ELSE UNCHANGED thr
    /\ mi' = mi + 1
    /\ UNCHANGED <<mpc, mb_ret, mb_errno, keep_running, info, pargs_data, bogo,
                   pool_cycles, mb_flag, metric, mb_status, kernel_mask,
                   have_flag_cpu, tick, duration, count, slots_read, cycle_failed,
                   lockVars, rangeVars, exVars>>

\* return EXIT_SUCCESS;
MbReturn ==
    /\ mpc = "join"
    /\ mi >= MAX_MEMBARRIER_THREADS
    /\ mb_status' = "EXIT_SUCCESS"
    /\ mpc' = "returned"
    /\ UNCHANGED <<mi, mb_ret, mb_errno, keep_running, info, pargs_data, thr, bogo,
                   pool_cycles, mb_flag, metric, kernel_mask, have_flag_cpu, tick, duration, count, slots_read, cycle_failed,
                   lockVars, rangeVars, exVars>>

\* The start of stress_membarrier_thread: info = pargs->data, read from the
\* pargs the creation loop keeps rewriting, and sigprocmask()
ThreadStart(t) ==
    /\ thr[t].pc = "start"
    /\ thr' = [thr EXCEPT ![t] = [pc |-> "check", info |-> pargs_data]]
    /\ UNCHANGED <<mpc, mi, mb_ret, mb_errno, keep_running, info, pargs_data, bogo,
                   pool_cycles, mb_flag, metric, mb_status, kernel_mask,
                   have_flag_cpu, tick, duration, count, slots_read, cycle_failed, lockVars, rangeVars, exVars>>

\* A variant that tests keep_running alone
ThreadContinues_RunFlagOnly(kr, flag) == kr

\* keep_running && keep_stressing_flag()
ThreadContinues(kr, flag) == kr /\ flag

\* while (keep_running && keep_stressing_flag())
ThreadCheck(t) ==
    /\ thr[t].pc = "check"
    /\ IF ThreadContinues(keep_running, mb_flag)
       THEN /\ pool_cycles < MaxPoolCycles
            /\ pool_cycles' = pool_cycles + 1
            /\ thr' = [thr EXCEPT ![t].pc = "cycle"]
       ELSE /\ thr' = [thr EXCEPT ![t] = [pc |-> "ended", info |-> NULL_SLOT]]
            /\ UNCHANGED pool_cycles
    /\ UNCHANGED <<mpc, mi, mb_ret, mb_errno, keep_running, info, pargs_data, bogo,
                   mb_flag, metric, mb_status, kernel_mask, have_flag_cpu, tick, duration, count, slots_read, cycle_failed, lockVars,
                   rangeVars, exVars>>

\* if (stress_membarrier_exercise(args, info) < 0) break;
ThreadCycle(t) ==
    /\ thr[t].pc = "cycle"
    /\ \E qok \in BOOLEAN :
         IF qok
         THEN /\ info' = [info EXCEPT ![thr[t].info] =
                            ExerciseSlot(@, kernel_mask, have_flag_cpu, tick)]
              /\ thr' = [thr EXCEPT ![t].pc = "check"]
         ELSE /\ thr' = [thr EXCEPT ![t] = [pc |-> "ended", info |-> NULL_SLOT]]
              /\ UNCHANGED info
    /\ UNCHANGED <<mpc, mi, mb_ret, mb_errno, keep_running, pargs_data, bogo,
                   pool_cycles, mb_flag, metric, mb_status, kernel_mask,
                   have_flag_cpu, tick, duration, count, slots_read, cycle_failed, lockVars, rangeVars, exVars>>

\* The stop signal reaches the process: keep_stressing_flag() turns false
MbStopSignal ==
    /\ mpc # "returned"
    /\ mb_flag
    /\ mb_flag' = FALSE
    /\ UNCHANGED <<mpc, mi, mb_ret, mb_errno, keep_running, info, pargs_data, thr,
                   bogo, pool_cycles, metric, mb_status, kernel_mask, have_flag_cpu, tick, duration, count, slots_read, cycle_failed,
                   lockVars, rangeVars, exVars>>

\* One stress_membarrier_exercise(args, info) call on its own, on a slot that
\* starts at zero: the query, then the three sweeps
ExerciseOnce ==
    /\ ex.state = "idle"
    /\ \E qok \in BOOLEAN :
         ex' = IF qok
               THEN [ex EXCEPT !.state = "returned 0",
                               !.calls = stress_membarrier_exercise(ex.mask, have_flag_cpu),
                               !.info = ExerciseSlot(@, ex.mask, have_flag_cpu, tick)]
               ELSE [ex EXCEPT !.state = "returned -1"]
    /\ UNCHANGED <<lockVars, rangeVars, mbVars>>

-----------------------------------------------------------------------------
(* Specifications                                                           *)

LockInit ==
    /\ pc = [p \in Procs |-> IF p = "parent" THEN "mkdir" ELSE "none"]
    /\ lockofd_infos = [p \in Procs |-> EmptyInfos]
    /\ heap = [p \in Procs |-> <<>>]
    /\ g_keep_stressing_flag = [p \in Procs |-> p = "parent"]
    /\ counter = 0
    /\ pushed = [p \in Procs |-> <<>>]
    /\ unlocked = [p \in Procs |-> <<>>]
    /\ wr_offset = 0
    /\ file_size = 0
    /\ fd_open = FALSE
    /\ removed = {}
    /\ cpid = -1
    /\ child_status = "none"
    /\ ret = "EXIT_FAILURE"
    /\ last_fork = [res |-> "none", tries |-> 0]

RangeIdle == rnd = [r16 |-> 0, r64 |-> U64Zero] /\ f = NoRequest

\* The start of stress_membarrier on a kernel answering one of masks, in a
\* build that has or has not the per-CPU flag, on a machine where a sweep
\* takes one of ticks
MbStart(masks, builds, ticks) ==
    /\ mpc = "query"
    /\ mi = 0
    /\ mb_ret = 0
    /\ mb_errno = "none"
    /\ keep_running = FALSE
    /\ info = [s \in Slots |-> UninitInfo]
    /\ pargs_data = NULL_SLOT
    /\ thr = [t \in Pool |-> [pc |-> "none", info |-> NULL_SLOT]]
    /\ bogo = 0
    /\ pool_cycles = 0
    /\ mb_flag = TRUE
    /\ metric = <<>>
    /\ mb_status = "running"
    /\ kernel_mask \in masks
    /\ have_flag_cpu \in builds
    /\ tick \in ticks
    /\ duration = 0
    /\ count = 0
    /\ slots_read = <<>>
    /\ cycle_failed = FALSE

\* stress_membarrier is followed in the build the file's own enum gives, where
\* MEMBARRIER_CMD_FLAG_CPU is an enumerator and not a macro; SpecExercise
\* follows the cycle in both builds
MbInit == MbStart(KernelMasks, {FALSE}, Ticks)
MbIdle == MbStart({9}, {FALSE}, {1})

ExIdle == ex = [mask |-> 0, state |-> "idle", info |-> ZeroSlot, calls |-> <<>>]

Init == LockInit /\ RangeIdle /\ MbIdle /\ ExIdle

\* Samples of mwc16() and mwc64() for the request arithmetic: every 16-bit
\* value, and 64-bit values around the file size and at both ends
R16Values == 0..65535
R64Samples ==
    { U64Zero, U64Max,
      <<0, 0, 0, 0, 0, 16, 0, 0>>,       \* LOCK_FILE_SIZE
      <<0, 0, 0, 0, 0, 15, 255, 255>>,   \* LOCK_FILE_SIZE - 1
      <<0, 0, 0, 0, 0, 15, 240, 1>>,     \* LOCK_FILE_SIZE - 4095
      <<128, 0, 0, 0, 0, 0, 0, 0>> }     \* 2^63

RangeInit ==
    /\ rnd \in [r16 : R16Values, r64 : R64Samples]
    /\ f = NoRequest

\* The draw of len and offset and the filling of f, on its own
DrawRequest ==
    /\ f = NoRequest
    /\ f' = LockRequest(rnd.r16, rnd.r64)
    /\ UNCHANGED <<rnd, lockVars, mbVars, exVars>>

RangeSpecInit == RangeInit /\ LockInit /\ MbIdle /\ ExIdle

SpecRange == RangeSpecInit /\ [][DrawRequest]_vars

MbNext ==
    \/ MbQuery
    \/ MbInitInfo
    \/ MbCreate
    \/ MbExercise
    \/ MbClear
    \/ MbSum
    \/ MbMetric
    \/ MbJoin
    \/ MbReturn
    \/ \E t \in Pool : ThreadStart(t)
    \/ \E t \in Pool : ThreadCheck(t)
    \/ \E t \in Pool : ThreadCycle(t)
    \/ MbStopSignal

MembarrierInit == LockInit /\ RangeIdle /\ MbInit /\ ExIdle

SpecMembarrier == MembarrierInit /\ [][MbNext]_vars

\* The steps of the calling thread and of pool thread t
MbMain ==
    \/ MbQuery \/ MbInitInfo \/ MbCreate \/ MbExercise \/ MbClear
    \/ MbSum \/ MbMetric \/ MbJoin \/ MbReturn
MbThread(t) == ThreadStart(t) \/ ThreadCheck(t) \/ ThreadCycle(t)

\* The same program, on a kernel that has MEMBARRIER_CMD_SHARED, with every
\* thread scheduled again and again: the system calls return, and a thread
\* that can take a step takes it in the end
MembarrierFairInit == LockInit /\ RangeIdle /\ MbIdle /\ ExIdle

SpecMembarrierFair ==
    /\ MembarrierFairInit
    /\ [][MbNext]_vars
    /\ WF_vars(MbMain)
    /\ \A t \in Pool : WF_vars(MbThread(t))

\* Masks for one cycle on its own: every mask of six bits, all nine commands
\* of the enum, the top legal bit alone, and every bit an int can hold
MaskSamples == (0..63) \cup {511, 1073741824, INT_MAX}

ExInit ==
    /\ ex \in [mask : MaskSamples, state : {"idle"}, info : {ZeroSlot}, calls : {<<>>}]

ExerciseInit == LockInit /\ RangeIdle /\ MbStart({9}, BOOLEAN, Ticks) /\ ExInit

SpecExercise == ExerciseInit /\ [][ExerciseOnce]_vars

Next ==
    \/ Mkdir
    \/ Open
    \/ Lseek
    \/ SizingWrite
    \/ Fork
    \/ \E p \in Procs : ContentionUnlock(p)
    \/ \E p \in Procs : ContentionLock(p)
    \/ \E p \in Procs : ContentionWhile(p)
    \/ ChildExit
    \/ ParentContentionDone
    \/ TidyReap
    \/ TidyFree
    \/ TidyClose
    \/ \E p \in Procs : StopSignal(p)

Spec == Init /\ [][Next]_vars

\* The list functions on their own: how many calls are followed
MaxListOps == 9

\* lockofd_info = stress_lockofd_info_new(), called on the parent's list at
\* any moment; calloc may fail
ListNew ==
    /\ counter < MaxListOps
    /\ \E callocOk \in BOOLEAN :
         LET n == stress_lockofd_info_new(lockofd_infos["parent"], heap["parent"], callocOk)
         IN  /\ lockofd_infos' = [lockofd_infos EXCEPT !["parent"] = n.infos]
             /\ heap' = [heap EXCEPT !["parent"] = n.heap]
    /\ counter' = counter + 1
    /\ UNCHANGED <<pc, g_keep_stressing_flag, pushed, unlocked, wr_offset, file_size,
                   fd_open, removed, cpid, child_status, ret, last_fork, nonLockVars>>

\* stress_lockofd_info_head_remove(), called on the parent's list at any
\* moment, also when it is empty
ListHeadRemove ==
    /\ counter < MaxListOps
    /\ LET r == stress_lockofd_info_head_remove(lockofd_infos["parent"], heap["parent"])
       IN  /\ lockofd_infos' = [lockofd_infos EXCEPT !["parent"] = r.infos]
           /\ heap' = [heap EXCEPT !["parent"] = r.heap]
    /\ counter' = counter + 1
    /\ UNCHANGED <<pc, g_keep_stressing_flag, pushed, unlocked, wr_offset, file_size,
                   fd_open, removed, cpid, child_status, ret, last_fork, nonLockVars>>

ListInit == Init

ListNext == ListNew \/ ListHeadRemove

\* Any sequence of calls of the two list functions, from the empty list
SpecList == ListInit /\ [][ListNext]_vars

\* The steps of the parent and of the child
ParentStep ==
    \/ Mkdir \/ Open \/ Lseek \/ SizingWrite \/ Fork
    \/ ContentionUnlock("parent") \/ ContentionLock("parent") \/ ContentionWhile("parent")
    \/ ParentContentionDone \/ TidyReap \/ TidyFree \/ TidyClose
ChildStep ==
    \/ ContentionUnlock("child") \/ ContentionLock("child") \/ ContentionWhile("child")
    \/ ChildExit

\* The same program with both processes scheduled again and again: a process
\* that can take a step takes one in the end.  What the system calls return,
\* and whether a stop signal comes, stays open.
FairInit == Init

SpecFair == FairInit /\ [][Next]_vars /\ WF_vars(ParentStep) /\ WF_vars(ChildStep)

-----------------------------------------------------------------------------
(* Properties of the tracking list and the contention loop (Spec)           *)

\* The list of p is in use: stress_lockofd_info_free() has not run on it
ListLive(p) == pc[p] \notin {"tidy_close", "done"}

ToRange(req) == [offset |-> req.l_start, len |-> req.l_len]
UnlockedRanges(p) == [i \in 1..Len(unlocked[p]) |-> ToRange(unlocked[p][i])]

\* C1: FIFO eviction order.  In every state, the ranges a process has handed
\* to the unlock call are, in order, the first ranges it recorded; and while
\* its list is in use the list holds exactly the remaining recorded ranges,
\* oldest first (so after A,B,C,D,E with capacity 4 the list is B,C,D,E and
\* A was unlocked before E was recorded).
C1_FifoEviction ==
    \A p \in Procs :
        /\ Len(unlocked[p]) <= Len(pushed[p])
        /\ UnlockedRanges(p) = SubSeq(pushed[p], 1, Len(unlocked[p]))
        /\ (ListLive(p) /\ pc[p] \notin {"none", "exited", "reaped"}) =>
              ActiveRanges(p) = SubSeq(pushed[p], Len(unlocked[p]) + 1, Len(pushed[p]))

\* The parent recorded five ranges with capacity four: the first was handed
\* to the unlock call and the list holds the other four
C1_Witness ==
    /\ LOCK_MAX = 4
    /\ pc["parent"] = "c_while"
    /\ Len(pushed["parent"]) = 5
    /\ pushed["parent"][1] # pushed["parent"][4]
    /\ UnlockedRanges("parent") = <<pushed["parent"][1]>>
    /\ ActiveRanges("parent") = SubSeq(pushed["parent"], 2, 5)

\* C2: capacity bound.  The length of a tracking list never exceeds LOCK_MAX,
\* it is below LOCK_MAX whenever a lock attempt is about to be made, and the
\* step taken at the head of the loop with the length at LOCK_MAX releases
\* exactly one record, the oldest.
C2_LengthBounded ==
    \A p \in Procs :
        /\ lockofd_infos[p].length <= LOCK_MAX
        /\ Len(ActiveChain(p)) <= LOCK_MAX
        /\ pc[p] = "c_lock" => lockofd_infos[p].length < LOCK_MAX

C2_OneEviction ==
    \A p \in Procs :
        (pc[p] = "c_top" /\ pc'[p] \in {"c_lock", "c_fail"}
                         /\ lockofd_infos[p].length >= LOCK_MAX) =>
            /\ lockofd_infos'[p].length = lockofd_infos[p].length - 1
            /\ ActiveRanges(p)' = Tail(ActiveRanges(p))
            /\ UnlockedRanges(p)' = Append(UnlockedRanges(p), ActiveRanges(p)[1])

C2_CapacityBound == [](C2_LengthBounded) /\ [][C2_OneEviction]_vars

\* A process about to attempt a lock after an eviction from a full list
C2_Witness ==
    \E p \in Procs :
        /\ pc[p] = "c_lock"
        /\ Len(unlocked[p]) = 1
        /\ lockofd_infos[p].length = LOCK_MAX - 1

\* The byte ranges of two records overlap (a length of 0 runs to the end of
\* the file and beyond, as in struct flock)
Overlap(a, b) ==
    /\ (a.len = 0 \/ b.offset < a.offset + a.len)
    /\ (b.len = 0 \/ a.offset < b.offset + b.len)

\* C3: descriptor-shared lock exclusion.  The parent's list and the child's
\* list never both hold a record whose byte ranges overlap.
C3_NoOverlapAcrossProcesses ==
    \A i \in 1..Len(ActiveRanges("parent")), j \in 1..Len(ActiveRanges("child")) :
        ~Overlap(ActiveRanges("parent")[i], ActiveRanges("child")[j])

\* C6: range validity.  Every lock request built from a generator output
\* has 0 <= l_start and l_start + l_len <= LOCK_FILE_SIZE.
C6_RangeValid ==
    f.l_type = "F_WRLCK" =>
        (0 <= f.l_start /\ f.l_start + f.l_len <= LOCK_FILE_SIZE)

\* A request that ends on the last byte of the file
C6_Witness ==
    /\ f.l_type = "F_WRLCK"
    /\ f.l_len > 0
    /\ f.l_start + f.l_len = LOCK_FILE_SIZE - 1

\* C7: free-pool reuse.  While a list is in use the number of records
\* allocated equals its length plus the size of its free pool, and a step
\* allocates a record only if the free pool was empty before it.
C7_AllocatedIsActivePlusFree ==
    \A p \in Procs :
        ListLive(p) => Len(heap[p]) = lockofd_infos[p].length + Len(FreeChain(p))

C7_AllocOnlyWhenFreeEmpty ==
    \A p \in Procs :
        Len(heap'[p]) > Len(heap[p]) => lockofd_infos[p].free = NULL

C7_FreePoolReuse ==
    [](C7_AllocatedIsActivePlusFree) /\ [][C7_AllocOnlyWhenFreeEmpty]_vars

\* The parent popped a record and recorded a fifth range in the four records
\* it had allocated
C7_Witness ==
    /\ pc["parent"] = "c_while"
    /\ Len(pushed["parent"]) = LOCK_MAX + 1
    /\ Len(unlocked["parent"]) = 1
    /\ Len(heap["parent"]) = LOCK_MAX
    /\ lockofd_infos["parent"].free = NULL

\* A pool thread whose creation succeeded
Started(t) == info[t].pthread_ret = 0 /\ thr[t].pc # "none"

\* C4: aggregation after the exercisers have stopped.  Whenever the calling
\* thread is in its summing loop, every pool thread that was started has
\* left its exercise loop.
C4_SumAfterAllStopped ==
    mpc = "sum" => \A t \in Pool : Started(t) => thr[t].pc = "ended"

\* C5: single writer per slot.  A pool thread in its loop holds a pointer to
\* the slot of its own index, so that no two threads in their loops hold the
\* same slot and none holds the calling thread's slot.
C5_SingleWriterPerSlot ==
    /\ \A t \in Pool : thr[t].pc \in {"check", "cycle"} => thr[t].info = t
    /\ \A t, u \in Pool :
          (t # u /\ thr[t].pc \in {"check", "cycle"} /\ thr[u].pc \in {"check", "cycle"})
              => thr[t].info # thr[u].info

\* The bits of an int mask that are set
SetBits(mask) == {b \in 0..30 : (mask \div (2 ^ b)) % 2 = 1}

\* The counted calls of the cycle, in the order they were made
CountedCalls == SelectSeq(ex.calls, LAMBDA c : c.counted)

\* C8: capability enumeration completeness.  After a cycle on mask M that
\* began with the call counter at zero: for every bit set in M there is
\* exactly one counted call of its command with zero flags and exactly one
\* with the per-CPU flag, the counted calls come in increasing bit order, no
\* counted call has a command outside M, and the call counter equals the
\* number of counted calls (the probes add nothing).
C8_EnumerationComplete ==
    ex.state = "returned 0" =>
        /\ \A b \in SetBits(ex.mask) :
              /\ Cardinality({k \in DOMAIN CountedCalls :
                     CountedCalls[k].cmd = 2 ^ b /\ CountedCalls[k].flags = 0}) = 1
              /\ Cardinality({k \in DOMAIN CountedCalls :
                     /\ CountedCalls[k].cmd = 2 ^ b
                     /\ CountedCalls[k].flags = MEMBARRIER_CMD_FLAG_CPU}) = 1
        /\ \A k \in DOMAIN CountedCalls :
              \E b \in SetBits(ex.mask) : CountedCalls[k].cmd = 2 ^ b
        /\ \A j, k \in DOMAIN CountedCalls :
              j < k => CountedCalls[j].cmd <= CountedCalls[k].cmd
        /\ ex.info.count = Len(CountedCalls)

\* C9: metric aggregation.  Once the metric is set, the summing loop has read
\* five slots and the rate is the sum of their counts over the sum of their
\* durations if that sum is positive, and zero otherwise.
C9_RateOfFiveSlots ==
    metric # <<>> =>
        /\ Len(slots_read) = 5
        /\ LET c == slots_read[1].count + slots_read[2].count + slots_read[3].count
                    + slots_read[4].count + slots_read[5].count
               d == slots_read[1].duration + slots_read[2].duration
                    + slots_read[3].duration + slots_read[4].duration
                    + slots_read[5].duration
           IN  IF d > 0
               THEN metric[1].num = c /\ metric[1].den = d
               ELSE metric[1].num = 0 /\ metric[1].den = 1

\* The metric was set from a pool thread's cycle and the calling thread's
\* cycle, with a positive total duration
C9_Witness ==
    /\ metric # <<>>
    /\ metric[1].num > 0
    /\ slots_read[5].count > 0
    /\ \E i \in 1..4 : slots_read[i].count > 0 /\ slots_read[i].duration > 0

\* The state stress_membarrier returns in with nothing started
ReturnedEarly(status) ==
    /\ mpc = "returned"
    /\ mb_status = status
    /\ \A t \in Pool : thr[t].pc = "none"
    /\ pargs_data = NULL_SLOT
    /\ bogo = 0
    /\ pool_cycles = 0
    /\ info = [s \in Slots |-> UninitInfo]
    /\ metric = <<>>

\* C10: the first query decides the exit class.  Once the query is done: if
\* it failed with ENOSYS the run has returned EXIT_NOT_IMPLEMENTED, if it
\* failed with another error it has returned EXIT_FAILURE, if it succeeded
\* without MEMBARRIER_CMD_SHARED it has returned EXIT_NOT_IMPLEMENTED; and in
\* the three cases no thread was created and no cycle was run.
C10_QueryDecidesExit ==
    mpc # "query" =>
        /\ (mb_ret < 0 /\ mb_errno = "ENOSYS") => ReturnedEarly("EXIT_NOT_IMPLEMENTED")
        /\ (mb_ret < 0 /\ mb_errno # "ENOSYS") => ReturnedEarly("EXIT_FAILURE")
        /\ (mb_ret >= 0 /\ mb_ret % 2 = 0) => ReturnedEarly("EXIT_NOT_IMPLEMENTED")

\* The kernel answered the query with a mask that lacks MEMBARRIER_CMD_SHARED
C10_Witness ==
    /\ mpc = "returned"
    /\ mb_ret > 0
    /\ mb_ret % 2 = 0
    /\ mb_status = "EXIT_NOT_IMPLEMENTED"

\* The unlock call of process p has failed
UnlockFailed(p) == \E i \in DOMAIN unlocked[p] : unlocked[p][i].rc < 0

\* C11: an eviction unlock failure is fatal.  Once the unlock call has failed
\* in a process, that failed call is the last one it made, the process is no
\* longer in its contention loop, and when stress_lockofd has returned after
\* a failure in the parent or in the child the status it returned is not
\* EXIT_SUCCESS.
C11_UnlockFailureFatal ==
    /\ \A p \in Procs :
          UnlockFailed(p) =>
              /\ unlocked[p][Len(unlocked[p])].rc < 0
              /\ \A i \in 1..(Len(unlocked[p]) - 1) : unlocked[p][i].rc = 0
              /\ pc[p] \notin {"c_top", "c_lock", "c_while", "c_ret0"}
    /\ (pc["parent"] = "done" /\ \E p \in Procs : UnlockFailed(p)) =>
          ret # "EXIT_SUCCESS"

\* C12: a failed capability query in a cycle of the calling thread is fatal.
\* When stress_membarrier has returned after such a cycle, the status it
\* returned is EXIT_FAILURE.
C12_CycleFailureFatal ==
    (mpc = "returned" /\ cycle_failed) => mb_status = "EXIT_FAILURE"

\* stress_membarrier has run to its last return
RanToEnd == mpc = "returned" /\ mb_status = "EXIT_SUCCESS"

\* C13: clean shutdown of the pool.  Once keep_stressing_flag() is false,
\* stress_membarrier returns in the end, with keep_running cleared if the
\* pool was started; it never returns while a pool thread is started and not
\* ended; and at its last return the threads joined are exactly those whose
\* pthread_create returned 0, the others never having been started.
C13_CleanShutdown ==
    /\ (~mb_flag) ~> (mpc = "returned")
    /\ [](RanToEnd => ~keep_running)
    /\ [](mpc = "returned" => \A t \in Pool : thr[t].pc \in {"none", "joined"})
    /\ [](RanToEnd => \A t \in Pool :
            /\ thr[t].pc = "joined" <=> info[t].pthread_ret = 0
            /\ thr[t].pc = "none" <=> info[t].pthread_ret # 0)

\* The run returned after the stop signal with some threads joined and one
\* whose creation failed left alone
C13_Witness ==
    /\ RanToEnd
    /\ ~mb_flag
    /\ \E t, u \in Pool :
          /\ thr[t].pc = "joined"
          /\ thr[u].pc = "none"
          /\ info[u].pthread_ret # 0

\* C14: teardown.  stress_lockofd never returns with the descriptor open or
\* with a child that is not reaped; the step that closes the descriptor is
\* the returning one and attempts the removal of the file and of the
\* directory; and whenever the parent is about to free its list, or has, a
\* child that was forked has been killed and reaped.
C14_ReturnedClean ==
    /\ pc["parent"] = "done" => (~fd_open /\ pc["child"] \in {"none", "reaped"})
    /\ (cpid > 0) <=> (pc["child"] # "none")
    /\ (pc["parent"] \in {"tidy_free", "tidy_close", "done"} /\ cpid > 0) =>
           pc["child"] = "reaped"

C14_CloseRemoves ==
    /\ (fd_open /\ pc["parent"] # "done" /\ pc'["parent"] = "done") => ~fd_open'
    /\ (fd_open /\ ~fd_open') =>
          /\ pc'["parent"] = "done"
          /\ {"unlink", "rmdir"} \subseteq removed'
          /\ lockofd_infos'["parent"].head = NULL

C14_Teardown == [](C14_ReturnedClean) /\ [][C14_CloseRemoves]_vars

\* The run returned after killing a child that was still in its loop
C14_Witness ==
    /\ pc["parent"] = "done"
    /\ ~fd_open
    /\ removed = {"unlink", "rmdir"}
    /\ pc["child"] = "reaped"
    /\ child_status = "SIGKILL"

\* Pool thread t leaves its loop at the loop test in this step
LeavesAtTest(t) == thr[t].pc = "check" /\ thr'[t].pc = "ended"

\* C15 as stated: a pool thread leaves its loop at the loop test only when
\* keep_running has been cleared and keep_stressing_flag() is false.
C15_LeavesOnlyWhenBothFalse ==
    [][\A t \in Pool : LeavesAtTest(t) => (~keep_running /\ ~mb_flag)]_vars

\* C15 as amended: a pool thread begins a cycle only while keep_running is
\* set and keep_stressing_flag() is true, and it leaves its loop only at a
\* loop test that finds one of the two false, or from a cycle whose query
\* failed and which left every slot as it was.
C15_LeavesWhenEitherFalse ==
    [][\A t \in Pool :
          /\ LeavesAtTest(t) => (~keep_running \/ ~mb_flag)
          /\ (thr[t].pc = "check" /\ thr'[t].pc = "cycle") => (keep_running /\ mb_flag)
          /\ (thr[t].pc = "check" /\ keep_running /\ mb_flag) => thr'[t].pc # "ended"
          /\ (thr[t].pc = "cycle" /\ thr'[t].pc = "ended") => info' = info]_vars

\* The run ended on its bogo-op budget: the threads were joined with
\* keep_stressing_flag() still true, and one of them had run a cycle
C15_Witness ==
    /\ RanToEnd
    /\ mb_flag
    /\ pool_cycles > 0
    /\ \E s \in Pool : info[s].count > 0
    /\ \E t \in Pool : thr[t].pc = "joined"

\* C16: lock length range.  Every lock request built from a generator output
\* has a length of at least 1 and at most 4096.
C16_LengthInRange ==
    f.l_type = "F_WRLCK" => (1 <= f.l_len /\ f.l_len <= 4096)

\* C17: file sizing.  Whenever the fork is attempted, and from then on, the
\* lock file is exactly LOCK_FILE_SIZE bytes long; and a sizing step that
\* goes to the teardown while the run is not asked to stop does so before any
\* fork and with a status other than EXIT_SUCCESS, every other sizing step
\* staying in the loop or going on to the fork.
C17_SizedAtFork ==
    (pc["parent"] = "fork" \/ cpid > 0) => file_size = LOCK_FILE_SIZE

C17_WriteFailureAborts ==
    (pc["parent"] = "sizing" /\ pc'["parent"] # "sizing") =>
        IF pc'["parent"] = "tidy"
        THEN /\ cpid' = -1
             /\ g_keep_stressing_flag["parent"] => ret' # "EXIT_SUCCESS"
        ELSE pc'["parent"] = "fork" /\ wr_offset' = LOCK_FILE_SIZE

C17_FileSizing == [](C17_SizedAtFork) /\ [][C17_WriteFailureAborts]_vars

\* A fork() call fails in this step and the parent stays at the label again
ForkRetried == pc["parent"] = "fork" /\ pc'["parent"] = "fork" /\ last_fork' # last_fork

\* A fork() call fails in this step and the parent goes to the teardown
ForkGivenUp == pc["parent"] = "fork" /\ pc'["parent"] = "tidy"

\* C18 as stated: a failed fork is retried only on EAGAIN; the retrying ends:
\* a parent at the fork leaves it in the end, whatever fork() returns; and a
\* fork that fails with another error while the run is not asked to stop is
\* not retried and leaves the status at EXIT_FAILURE.
C18_RetryBounded ==
    /\ [][ForkRetried => last_fork'.res = "EAGAIN"]_vars
    /\ (pc["parent"] = "fork") ~> (pc["parent"] # "fork")
    /\ [][(ForkGivenUp /\ g_keep_stressing_flag["parent"]) =>
             (last_fork'.res # "EAGAIN" /\ ret' = "EXIT_FAILURE")]_vars

\* C18 as amended: a failed fork is retried exactly when errno is EAGAIN and
\* the run is not asked to stop, with no limit on the number of retries; a
\* fork that fails with another error while the run is not asked to stop is
\* not retried and leaves the status at EXIT_FAILURE; a fork that fails once
\* the run is asked to stop is not retried and sets the status EXIT_SUCCESS.
C18_RetryWhileEagain ==
    [][pc["parent"] = "fork" =>
         /\ ret = "EXIT_FAILURE"
         /\ ForkRetried =>
               (last_fork'.res = "EAGAIN" /\ g_keep_stressing_flag["parent"])
         /\ (last_fork' # last_fork /\ last_fork'.res = "EAGAIN"
                                    /\ g_keep_stressing_flag["parent"]) => ForkRetried
         /\ ForkGivenUp =>
               /\ cpid' = -1
               /\ last_fork'.res \in {"EAGAIN", "ENOMEM"}
               /\ IF g_keep_stressing_flag["parent"]
                  THEN last_fork'.res # "EAGAIN" /\ ret' = "EXIT_FAILURE"
                  ELSE ret' = "EXIT_SUCCESS"]_vars

\* The parent is at the label again after more failed fork() calls than are
\* told apart, and the run is not asked to stop
C18_Witness ==
    /\ pc["parent"] = "fork"
    /\ last_fork.res = "EAGAIN"
    /\ last_fork.tries = MaxForkRetries
    /\ g_keep_stressing_flag["parent"]

\* The calls of the cycle made with legal arguments and not counted
ProbeCalls ==
    {k \in DOMAIN ex.calls :
        ~ex.calls[k].counted /\ ex.calls[k].flags = 0 /\ ex.calls[k].cpu_id = 0}

\* The lowest of the 32 bits that is not set in an int mask (bit 31 never is)
LowestUnsetBit(mask) ==
    CHOOSE b \in 0..31 :
        /\ b \notin SetBits(mask)
        /\ \A c \in 0..(b - 1) : c \in SetBits(mask)

\* C19: the illegal-command probe.  After a cycle on mask M exactly one call
\* was made with an unsupported command and legal arguments; it is the last
\* call, and its command is the lowest bit not set in M.  With M = 6 the
\* counted calls have the commands 2 and 4 and no other, and the probe has
\* the command 1.
C19_IllegalCommandProbe ==
    ex.state = "returned 0" =>
        /\ Cardinality(ProbeCalls) = 1
        /\ ProbeCalls = {Len(ex.calls)}
        /\ LET b == LowestUnsetBit(ex.mask)
           IN  ex.calls[Len(ex.calls)].cmd =
                   IF b < 31 THEN 2 ^ b ELSE (-2147483647) - 1
        /\ ex.mask = 6 =>
              /\ {CountedCalls[k].cmd : k \in DOMAIN CountedCalls} = {2, 4}
              /\ ex.calls[Len(ex.calls)].cmd = 1

\* The cycle on mask 6 has been run and ended with the probe of command 1
C19_Witness ==
    /\ ex.state = "returned 0"
    /\ ex.mask = 6
    /\ Len(ex.calls) > 1
    /\ ex.calls[Len(ex.calls)] = Call(1, 0, 0, FALSE)

\* The addresses in a chain
Members(chain) == {chain[i] : i \in DOMAIN chain}

\* C20: structure of the tracking list.  After any sequence of calls of
\* stress_lockofd_info_new and stress_lockofd_info_head_remove: length is the
\* number of records reachable from head, each reached once; head is NULL
\* exactly when length is 0; when the list is not empty tail is the last
\* record reachable from head and its next is NULL; and no record is both in
\* the active list and in the free pool.
C20_ListWellFormed ==
    LET L == lockofd_infos["parent"]
        H == heap["parent"]
        A == ActiveChain("parent")
        F == FreeChain("parent")
    IN  /\ L.length = Len(A)
        /\ Cardinality(Members(A)) = Len(A)
        /\ (L.head = NULL) <=> (L.length = 0)
        /\ L.length > 0 => (L.tail = A[Len(A)] /\ H[L.tail].next = NULL)
        /\ Members(A) \cap Members(F) = {}

\* Two records are active and one is in the free pool, after a removal from
\* the empty list and a failed allocation among the calls
C20_Witness ==
    /\ pc["parent"] = "mkdir"
    /\ counter = MaxListOps
    /\ lockofd_infos["parent"].length = 2
    /\ Len(FreeChain("parent")) = 1
    /\ lockofd_infos["parent"].head > lockofd_infos["parent"].tail

====
